---------------------------- MODULE Spec2Model ----------------------------
(***************************************************************************)
(* The kernels of session-1/exercises/kernels.ipynb: cuda_histogram, and   *)
(* add_kernel, first_kernel2, thread_counter_safe and                      *)
(* thread_counter_race_condition, each with its launch from the host.      *)
(*                                                                         *)
(* cuda_histogram is launched over a one dimensional grid of gridDim       *)
(* blocks of blockDim threads.  Every thread walks the samples x with a    *)
(* grid-stride loop, turns each sample into a bin number with floating     *)
(* point arithmetic followed by a conversion to int32, and increments the  *)
(* bin with cuda.atomic.add when the bin number is inside the array.       *)
(*                                                                         *)
(* Floating point is modelled by what it does: a value is sign * m * 2^e   *)
(* with a mantissa of a fixed number of bits, every operation rounds its   *)
(* exact result to nearest, ties to even.  The mantissa widths are scaled  *)
(* down (Float32Bits, Float64Bits) from 24 and 53 bits and are congruent   *)
(* to them modulo 3, the period of the binary expansion of 1/7, so that a  *)
(* division by 7 rounds in the same direction as in binary32 and binary64. *)
(***************************************************************************)
EXTENDS Integers, Sequences, FiniteSets

(***************************************************************************)
(* Bounds of the model.                                                    *)
(***************************************************************************)
MaxLen == 3          \* longest sample array x
MaxBlocks == 2       \* largest gridDim.x
MaxThreads == 2      \* largest blockDim.x
MaxRelaunches == 1   \* most launches of cuda_histogram after the first
Float32Bits == 6     \* mantissa bits of the scaled-down float32
Float64Bits == 8     \* mantissa bits of the scaled-down float64

SampleValues == {-1, 1, 10}      \* values a sample can take
RangeValues == {1, 10}           \* values xmin and xmax can take
BinCounts == {0, 3, 7}           \* lengths of histogram_out

\* Samples far outside the range, and a length of histogram_out that makes
\* their quotient by bin_width too large for an int32.
FarSampleValues == {-(2 ^ 28), 1, 2 ^ 28}
FarBinCounts == {128}

INT32_MAX == 2147483647
INT32_MIN == (-INT32_MAX) - 1

VARIABLES
    x,              \* the samples, a 0-based array
    xmin, xmax,     \* the histogram range
    histogram_out,  \* the bin counters, a 0-based array
    gridDim,        \* blocks in the grid
    blockDim,       \* threads per block
    i,              \* i[w]: the loop variable of thread w
    bin_numbers,    \* bin_numbers[k]: the bin_number computed for x[k], if any
    phase,          \* "host", "running" (kernel launched), "synced"
    oob,            \* TRUE once an atomic add has hit an index off the array
    kernel,         \* the kernel the host launches
    y,              \* add_kernel: the second input array
    out,            \* add_kernel, first_kernel2: the output array
    writes,         \* writes[k]: the stores made to out[k]
    global_counter, \* the thread counters' array of one counter
    reg,            \* reg[w]: the counter value thread w has read
    pc,             \* pc[w]: where thread w of a thread counter stands
    histogram_in,   \* histogram_out as the caller supplied it
    relaunches      \* the launches of cuda_histogram after the first

vars ==
    <<x, xmin, xmax, histogram_out, gridDim, blockDim, i, bin_numbers, phase,
      oob, kernel, y, out, writes, global_counter, reg, pc, histogram_in,
      relaunches>>

\* What cuda_histogram and its launch leave alone.
not_histogram ==
    <<kernel, y, out, writes, global_counter, reg, pc, histogram_in,
      relaunches>>

(***************************************************************************)
(* Arrays are functions over 0 .. n-1.                                     *)
(***************************************************************************)
shape0(arr) == Cardinality(DOMAIN arr)

Arrays(n, S) == [0 .. n - 1 -> S]

zeros(n) == [b \in 0 .. n - 1 |-> 0]

(***************************************************************************)
(* Floating point values.                                                  *)
(***************************************************************************)
Pow2(n) == IF n <= 0 THEN 1 ELSE 2 ^ n

Abs(z) == IF z < 0 THEN -z ELSE z

Sign(z) == IF z < 0 THEN -1 ELSE 1

FZero(s) == [kind |-> "fin", sign |-> s, m |-> 0, e |-> 0]

FInf(s) == [kind |-> "inf", sign |-> s, m |-> 0, e |-> 0]

FNaN == [kind |-> "nan", sign |-> 1, m |-> 0, e |-> 0]

\* num / den * 2^e, num and den positive, rounded to a mantissa of P bits,
\* to nearest and ties to even.
RECURSIVE Round(_, _, _, _, _)
Round(s, num, den, e, P) ==
    IF num >= den * Pow2(P) THEN Round(s, num, 2 * den, e + 1, P)
    ELSE IF num < den * Pow2(P - 1) THEN Round(s, 2 * num, den, e - 1, P)
    ELSE LET q == num \div den
             r == num % den
             up == (2 * r > den) \/ (2 * r = den /\ q % 2 = 1)
             m == IF up THEN q + 1 ELSE q
         IN  IF m = Pow2(P)
             THEN [kind |-> "fin", sign |-> s, m |-> Pow2(P - 1), e |-> e + 1]
             ELSE [kind |-> "fin", sign |-> s, m |-> m, e |-> e]

\* An integer as a float of P mantissa bits.
ToFloat(z, P) == IF z = 0 THEN FZero(1) ELSE Round(Sign(z), Abs(z), 1, 0, P)

\* f / g in P mantissa bits; a division by zero gives an infinity or a NaN
\* (no exception is raised inside a kernel).
FDiv(f, g, P) ==
    LET s == f.sign * g.sign IN
    IF f.kind = "nan" \/ g.kind = "nan" THEN FNaN
    ELSE IF f.kind = "inf" THEN (IF g.kind = "inf" THEN FNaN ELSE FInf(s))
    ELSE IF g.kind = "inf" THEN FZero(s)
    ELSE IF g.m = 0 THEN (IF f.m = 0 THEN FNaN ELSE FInf(s))
    ELSE IF f.m = 0 THEN FZero(s)
    ELSE Round(s, f.m, g.m, f.e - g.e, P)

\* The values np.int32(f) can give: the value truncated toward zero when it
\* fits; a NaN, an infinity or a value too large has no defined conversion,
\* the device instruction saturates (NaN gives 0) and the host instruction
\* gives INT32_MIN.
int32(f) ==
    IF f.kind = "nan" THEN {0, INT32_MIN}
    ELSE IF f.kind = "inf" \/ (f.m # 0 /\ f.e >= 1 /\ Pow2(31 - f.e) <= f.m)
         THEN (IF f.sign > 0 THEN {INT32_MAX, INT32_MIN} ELSE {INT32_MIN})
    ELSE IF f.e >= 0 THEN {f.sign * f.m * Pow2(f.e)}
    ELSE IF -f.e > 31 THEN {0}
    ELSE {f.sign * (f.m \div Pow2(-f.e))}

(***************************************************************************)
(* The grid-stride loop.                                                   *)
(***************************************************************************)
\* A thread is <<blockIdx.x, threadIdx.x>>.
Workers == (0 .. gridDim - 1) \X (0 .. blockDim - 1)

\* start without the block size: threads of different blocks collide.
start_no_block_size(tx, ty, block_size) == tx + ty

\* start = tx + ty * block_size
start(tx, ty, block_size) == tx + ty * block_size

\* twice the stride: every other index of a thread is skipped.
stride_twice(block_size, grid_size) == 2 * block_size * grid_size

\* stride of one block only: the blocks walk over each other's indices.
stride_one_block(block_size, grid_size) == block_size

\* stride = block_size * grid_size
stride(block_size, grid_size) == block_size * grid_size

\* cuda.grid(1) of thread w
\* A thread id that leaves out the block.
grid_in_block(w) == w[2]

grid(w) == start(w[2], w[1], blockDim)

\* cuda.gridsize(1)
gridsize == stride(blockDim, gridDim)

\* The indices range(first, stop, step) runs through, step > 0.
RECURSIVE range(_, _, _)
range(first, stop, step) ==
    IF first >= stop THEN {} ELSE {first} \cup range(first + step, stop, step)

(***************************************************************************)
(* The body of cuda_histogram.                                             *)
(***************************************************************************)
nbins == shape0(histogram_out)

\* bin_width = (xmax - xmin) / nbins: a float32 difference divided, in
\* float64, by the integer nbins.
BinWidth(lo, hi, n) ==
    FDiv(ToFloat(hi - lo, Float32Bits), ToFloat(n, Float64Bits), Float64Bits)

\* bin_number = np.int32((x[i] - xmin)/bin_width): the values it can take.
BinNumber(element, lo, hi, n) ==
    int32(FDiv(ToFloat(element - lo, Float32Bits), BinWidth(lo, hi, n),
               Float64Bits))

\* The bin numbers of every sample, range and length of the model, computed
\* once.
BinNumbers ==
    [element \in SampleValues \cup FarSampleValues,
     lo \in RangeValues, hi \in RangeValues,
     n \in BinCounts \cup FarBinCounts |-> BinNumber(element, lo, hi, n)]

bin_width == BinWidth(xmin, xmax, nbins)

bin_number(element) == BinNumbers[element, xmin, xmax, nbins]

\* The range test with bin 0 left out.
InBounds_above_zero(b) == b > 0 /\ b < shape0(histogram_out)

\* The range test without its upper end.
InBounds_no_upper(b) == b >= 0

\* if bin_number >= 0 and bin_number < histogram_out.shape[0]
\* The range test without its lower half.
InBounds_no_lower(b) == b < shape0(histogram_out)

InBounds(b) == b >= 0 /\ b < shape0(histogram_out)

\* A store of the value computed from a stale read of 0: the increments of
\* the other threads are lost.
atomic_add_lost(arr, idx, val) == [arr EXCEPT ![idx] = val]

\* An add that adds the value twice.
atomic_add_twice(arr, idx, val) == [arr EXCEPT ![idx] = @ + 2 * val]

\* An add that subtracts the value.
atomic_add_negated(arr, idx, val) == [arr EXCEPT ![idx] = @ - val]

\* a + val in an int32, val >= 0: a sum above INT32_MAX wraps around.
add_int32(a, val) ==
    IF a > INT32_MAX - val
    THEN INT32_MIN + ((val - 1) - (INT32_MAX - a))
    ELSE a + val

\* cuda.atomic.add(arr, idx, val): one indivisible read-modify-write of an
\* int32 element.
atomic_add(arr, idx, val) == [arr EXCEPT ![idx] = add_int32(@, val)]

Init ==
    /\ x \in UNION {Arrays(n, SampleValues) : n \in 0 .. MaxLen}
    /\ xmin \in RangeValues
    /\ xmax \in RangeValues
    /\ histogram_out \in {zeros(n) : n \in BinCounts}
    /\ gridDim \in 1 .. MaxBlocks
    /\ blockDim \in 1 .. MaxThreads
    /\ i = [w \in {} |-> 0]
    /\ bin_numbers = [k \in DOMAIN x |-> {}]
    /\ phase = "host"
    /\ oob = FALSE
    /\ kernel = "cuda_histogram"
    /\ y = zeros(0)
    /\ out = zeros(0)
    /\ writes = zeros(0)
    /\ global_counter = zeros(0)
    /\ reg = zeros(0)
    /\ pc = zeros(0)
    /\ histogram_in = histogram_out
    /\ relaunches = 0

\* cuda_histogram[gridDim, blockDim](x, xmin, xmax, histogram_out): every
\* thread of the grid starts at its own offset.
Launch ==
    /\ phase = "host"
    /\ phase' = "running"
    /\ i' = [w \in Workers |-> grid(w)]
    /\ UNCHANGED <<x, xmin, xmax, histogram_out, gridDim, blockDim,
                   bin_numbers, oob>>
    /\ UNCHANGED not_histogram

\* One iteration of the loop of thread w: the bin of x[i], the range test
\* and the atomic increment, then i advances by the stride.
Iterate(w) ==
    /\ phase = "running"
    /\ i[w] \in range(grid(w), shape0(x), gridsize)
    /\ \E b \in bin_number(x[i[w]]) :
          /\ bin_numbers' = [bin_numbers EXCEPT ![i[w]] = @ \cup {b}]
          /\ IF InBounds(b)
             THEN IF b \in DOMAIN histogram_out
                  THEN /\ histogram_out' = atomic_add(histogram_out, b, 1)
                       /\ oob' = oob
                  ELSE /\ histogram_out' = histogram_out
                       /\ oob' = TRUE
             ELSE UNCHANGED <<histogram_out, oob>>
    /\ i' = [i EXCEPT ![w] = @ + gridsize]
    /\ UNCHANGED <<x, xmin, xmax, gridDim, blockDim, phase>>
    /\ UNCHANGED not_histogram

\* The host reads the counters without waiting for the kernel.
Synchronize_no_wait ==
    /\ phase = "running"
    /\ phase' = "synced"
    /\ UNCHANGED <<x, xmin, xmax, histogram_out, gridDim, blockDim, i,
                   bin_numbers, oob>>
    /\ UNCHANGED not_histogram

\* The host waits for the kernel (the copy of histogram_out back to the
\* host) before it reads the counters.
Synchronize ==
    /\ phase = "running"
    /\ \A w \in Workers : i[w] >= shape0(x)
    /\ phase' = "synced"
    /\ UNCHANGED <<x, xmin, xmax, histogram_out, gridDim, blockDim, i,
                   bin_numbers, oob>>
    /\ UNCHANGED not_histogram

Next ==
    \/ Launch
    \/ \E w \in Workers : Iterate(w)
    \/ Synchronize

Spec == Init /\ [][Next]_vars

(***************************************************************************)
(* Vocabulary of the properties.                                           *)
(***************************************************************************)
Done == phase = "synced"

\* low < high and bin_count > 0
Valid == xmin < xmax /\ nbins > 0

RECURSIVE SumTo(_, _)
SumTo(arr, n) == IF n = 0 THEN 0 ELSE arr[n - 1] + SumTo(arr, n - 1)

Sum(arr) == SumTo(arr, shape0(arr))

\* floor((v - low) / bin_width) for the exact bin_width (high - low) / N of a
\* valid range.
FloorIndex(v) == ((v - xmin) * nbins) \div (xmax - xmin)

InInterval(v) == xmin <= v /\ v < xmax

\* C1: for a valid input, after accumulation counts[b] is the number of
\* samples v with floor((v - low) / bin_width) = b; samples whose floor index
\* is negative or >= bin_count are in no bin.
C1_CountsAreFloorIndexCounts ==
    (Done /\ Valid) =>
        \A b \in DOMAIN histogram_out :
            histogram_out[b] =
                Cardinality({k \in DOMAIN x : FloorIndex(x[k]) = b})

\* C2: for a valid input, after accumulation sum(counts) <= len(samples),
\* with equality exactly when every sample lies in [low, high).
C2_SumBoundedEqualIffAllInRange ==
    (Done /\ Valid) =>
        /\ Sum(histogram_out) <= shape0(x)
        /\ (Sum(histogram_out) = shape0(x)) <=>
               (\A k \in DOMAIN x : InInterval(x[k]))

\* The indices thread w runs through.
Indices(w) == range(grid(w), shape0(x), gridsize)

\* The thread that processes index k.
Owner(k) == CHOOSE w \in Workers : k \in Indices(w)

\* C3: no increment is lost: in every interleaving the final value of a bin
\* is the number of loop iterations whose bin_number selected it, which for a
\* valid input is the number of samples the bin computation sends there,
\* also when several threads increment the same bin.
C3_NoLostIncrement ==
    Done =>
        \A b \in DOMAIN histogram_out :
            /\ histogram_out[b] =
                   Cardinality({k \in DOMAIN x : bin_numbers[k] = {b}})
            /\ Valid =>
                   histogram_out[b] =
                       Cardinality({k \in DOMAIN x : b \in bin_number(x[k])})

\* Two samples processed by different threads went to the same bin.
C3_Witness ==
    /\ Done
    /\ Valid
    /\ \E k1, k2 \in DOMAIN x :
          /\ Owner(k1) # Owner(k2)
          /\ bin_numbers[k1] = bin_numbers[k2]
          /\ \E b \in bin_numbers[k1] : InBounds(b) /\ histogram_out[b] >= 2

\* The kernel run by one thread: start 0, stride 1, from index k on.
RECURSIVE OneWorker(_, _)
OneWorker(h, k) ==
    IF k >= shape0(x) THEN h
    ELSE LET hit == {b \in bin_number(x[k]) : InBounds(b)}
         IN  IF hit = {} THEN OneWorker(h, k + 1)
             ELSE OneWorker(atomic_add(h, CHOOSE b \in hit : TRUE, 1), k + 1)

\* C4: for a valid input, a run with any number N of workers leaves the
\* counts the run of one worker leaves, also when N does not divide
\* len(samples) and when N > len(samples).
C4_SameAsOneWorker ==
    (Done /\ Valid) => histogram_out = OneWorker(zeros(nbins), 0)

\* Three samples, all counted, shared between two threads.
C4_Witness ==
    /\ Done
    /\ Valid
    /\ gridsize = 2
    /\ shape0(x) = 3
    /\ Sum(histogram_out) = 3

\* C5: the index sets {start, start + W, ...} below M of distinct workers
\* are pairwise disjoint and their union is 0 .. M-1, for W < M, W = M,
\* W > M and W not dividing M; a thread's loop variable stays on its set.
C5_GridStridePartition ==
    LET sets == [w \in Workers |-> Indices(w)] IN
    /\ \A w1, w2 \in Workers : w1 # w2 => sets[w1] \cap sets[w2] = {}
    /\ UNION {sets[w] : w \in Workers} = 0 .. shape0(x) - 1
    /\ phase # "host" =>
          \A w \in Workers :
              i[w] \in sets[w] \cup (shape0(x) .. shape0(x) + gridsize - 1)

\* Two blocks of one thread have walked three samples: W < M, W does not
\* divide M.
C5_Witness ==
    /\ Done
    /\ gridDim = 2
    /\ blockDim = 1
    /\ shape0(x) = 3
    /\ i[<<0, 0>>] = 4
    /\ i[<<1, 0>>] = 3

\* C6 as stated: a call with low >= high fails with InvalidRangeError and
\* produces no counts.
C6_InvalidRangeFails == (xmin >= xmax) => ~Done

\* C6 amended: a call with low >= high raises no error and produces counts;
\* with low > high and bin_count > 0 every sample equal to low is counted in
\* bin 0, with low = high only samples equal to low can be counted.
C6_InvalidRangeCounts ==
    Done =>
        /\ (xmin > xmax /\ nbins > 0) =>
               histogram_out[0] >=
                   Cardinality({k \in DOMAIN x : x[k] = xmin})
        /\ (xmin = xmax) =>
               Sum(histogram_out) <=
                   Cardinality({k \in DOMAIN x : x[k] = xmin})

\* The range is reversed and counts have been produced.
C6_Witness ==
    /\ Done
    /\ xmin > xmax
    /\ nbins > 0
    /\ \E k \in DOMAIN x : x[k] = xmin
    /\ histogram_out[0] >= 1
    /\ Sum(histogram_out) = shape0(x)

\* C7 as stated: a call with an output array of length 0 fails with
\* InvalidBinCountError and produces no counts.
C7_ZeroBinsFails == (nbins = 0) => ~Done

\* C7 amended: a call with an output array of length 0 raises no error: the
\* kernel runs to completion over every sample, no bin number passes the
\* range test, nothing is written, on or off the array.
C7_ZeroBinsNothingWritten ==
    (nbins = 0) =>
        /\ oob = FALSE
        /\ histogram_out = zeros(0)
        /\ Done => \A k \in DOMAIN x : bin_numbers[k] # {}

\* The kernel has run over two or more samples with an empty output array.
C7_Witness ==
    /\ Done
    /\ nbins = 0
    /\ shape0(x) >= 2
    /\ \A k \in DOMAIN x : bin_numbers[k] # {}

\* C8 as stated: with an invalid input the failure is detected before any
\* worker is launched, no worker step is taken and every counter keeps its
\* value.
C8_InvalidInputNothingRuns ==
    (~Valid) =>
        /\ phase = "host"
        /\ \A k \in DOMAIN x : bin_numbers[k] = {}
        /\ histogram_out = zeros(nbins)

\* C8 amended: with an invalid input nothing is detected before the launch:
\* the workers run and process every sample index exactly once, and a counter
\* is incremented exactly when a computed bin number is in bounds.
C8_InvalidInputRuns ==
    (Done /\ ~Valid) =>
        /\ \A k \in DOMAIN x : Cardinality(bin_numbers[k]) = 1
        /\ Sum(histogram_out) =
               Cardinality({k \in DOMAIN x :
                               bin_numbers[k] \cap DOMAIN histogram_out # {}})

\* An invalid input has been accumulated by several threads.
C8_Witness ==
    /\ Done
    /\ ~Valid
    /\ gridsize >= 2
    /\ shape0(x) > gridsize
    /\ Sum(histogram_out) >= 2

\* C9: for a valid input a sample equal to low is counted in bin 0 and a
\* sample equal to high is counted in no bin.
C9_BoundarySamples ==
    (Done /\ Valid) =>
        \A k \in DOMAIN x :
            /\ x[k] = xmin => bin_numbers[k] = {0}
            /\ x[k] = xmax => bin_numbers[k] \cap DOMAIN histogram_out = {}

\* C10: for a valid input whose samples all lie outside [low, high) the
\* counts are all zero.
C10_AllOutsideAllZero ==
    (Done /\ Valid /\ \A k \in DOMAIN x : ~InInterval(x[k])) =>
        histogram_out = zeros(nbins)

\* The loop iterations thread w has completed.
Iterations(w) == (i[w] - (w[2] + w[1] * blockDim)) \div gridsize

\* C11: with an empty sample array and a valid range and bin count every
\* worker performs zero iterations (its loop variable stays at its start
\* offset) and the result is bin_count zeros, for every worker count.
C11_EmptySamplesAllZero ==
    (Valid /\ shape0(x) = 0) =>
        /\ histogram_out = zeros(nbins)
        /\ bin_numbers = zeros(0)
        /\ phase # "host" =>
              \A w \in Workers : i[w] = w[2] + w[1] * blockDim

\* Four threads have finished on an empty sample array.
C11_Witness ==
    /\ Done
    /\ Valid
    /\ shape0(x) = 0
    /\ gridDim = 2
    /\ blockDim = 2
    /\ histogram_out = zeros(7)

\* The permutations of 0 .. n-1.
Permutations(n) ==
    {p \in [0 .. n - 1 -> 0 .. n - 1] : \A k \in 0 .. n - 1 : \E j \in 0 .. n - 1 : p[j] = k}

\* The counts the kernel's bin computation gives the samples s, taken one
\* after the other from index k on.
RECURSIVE Sequential(_, _, _)
Sequential(s, h, k) ==
    IF k >= shape0(s) THEN h
    ELSE LET hit == {b \in bin_number(s[k]) : InBounds(b)}
         IN  IF hit = {} THEN Sequential(s, h, k + 1)
             ELSE Sequential(s, atomic_add(h, CHOOSE b \in hit : TRUE, 1),
                             k + 1)

\* C12: for a valid input the counts are those of every permutation of the
\* samples, for every worker count and interleaving.
C12_PermutationInvariant ==
    (Done /\ Valid) =>
        \A p \in Permutations(shape0(x)) :
            histogram_out =
                Sequential([k \in DOMAIN x |-> x[p[k]]], zeros(nbins), 0)

\* Three samples of two different bins, shared between two threads.
C12_Witness ==
    /\ Done
    /\ Valid
    /\ gridsize = 2
    /\ shape0(x) = 3
    /\ x[0] # x[1]
    /\ \E b1, b2 \in DOMAIN histogram_out :
          b1 # b2 /\ histogram_out[b1] >= 1 /\ histogram_out[b2] >= 1

\* C13: the counters are handed to the caller only after every worker has
\* finished its loop: in no state are the results readable while a worker
\* has an unprocessed index, and they do not change once readable.
C13_ReadAfterAllWorkersDone ==
    Done =>
        /\ \A w \in Workers : i[w] >= shape0(x)
        /\ \A k \in DOMAIN x : bin_numbers[k] # {}
        /\ \A w \in Workers : ~ENABLED Iterate(w)

\* The results are readable after several workers ran their loops.
C13_Witness ==
    /\ Done
    /\ gridsize = 4
    /\ shape0(x) = 3
    /\ Sum(histogram_out) = 3

(***************************************************************************)
(* The thread counters: every thread of the grid adds one to               *)
(* global_counter[0], thread_counter_safe with cuda.atomic.add and         *)
(* thread_counter_race_condition with a separate read, +1 and write back.  *)
(***************************************************************************)
\* What the thread counters and their launch leave alone.
not_counter ==
    <<x, xmin, xmax, histogram_out, i, bin_numbers, oob, y, out, writes,
      histogram_in, relaunches>>

\* The block sizes of the thread counters' launches.
CounterBlockDims == 1 .. 2

InitCounter ==
    /\ kernel \in {"thread_counter_safe", "thread_counter_race_condition"}
    /\ global_counter = zeros(1)
    /\ gridDim \in 1 .. MaxBlocks
    /\ blockDim \in CounterBlockDims
    /\ reg = zeros(0)
    /\ pc = zeros(0)
    /\ histogram_in = zeros(0)
    /\ relaunches = 0
    /\ phase = "host"
    /\ x = zeros(0)
    /\ xmin = 0
    /\ xmax = 0
    /\ histogram_out = zeros(0)
    /\ i = zeros(0)
    /\ bin_numbers = zeros(0)
    /\ oob = FALSE
    /\ y = zeros(0)
    /\ out = zeros(0)
    /\ writes = zeros(0)

\* thread_counter_safe[gridDim, blockDim](global_counter), or the same
\* launch of thread_counter_race_condition.
LaunchCounter ==
    /\ phase = "host"
    /\ phase' = "running"
    /\ pc' = [w \in Workers |-> "start"]
    /\ reg' = [w \in Workers |-> 0]
    /\ UNCHANGED <<kernel, global_counter, gridDim, blockDim>>
    /\ UNCHANGED not_counter

\* Thread w of thread_counter_safe: one atomic add.
thread_counter_safe(w) ==
    /\ phase = "running"
    /\ kernel = "thread_counter_safe"
    /\ pc[w] = "start"
    /\ global_counter' = atomic_add(global_counter, 0, 1)
    /\ pc' = [pc EXCEPT ![w] = "done"]
    /\ UNCHANGED <<kernel, reg, gridDim, blockDim, phase>>
    /\ UNCHANGED not_counter

\* Thread w of thread_counter_race_condition reads global_counter[0].
read_counter(w) ==
    /\ phase = "running"
    /\ kernel = "thread_counter_race_condition"
    /\ pc[w] = "start"
    /\ reg' = [reg EXCEPT ![w] = global_counter[0]]
    /\ pc' = [pc EXCEPT ![w] = "read"]
    /\ UNCHANGED <<kernel, global_counter, gridDim, blockDim, phase>>
    /\ UNCHANGED not_counter

\* The value the thread computes from the one it has read.
plus_zero(v) == v

plus_one(v) == v + 1

\* Thread w of thread_counter_race_condition writes the value it computed
\* back to global_counter[0].
write_counter(w) ==
    /\ phase = "running"
    /\ kernel = "thread_counter_race_condition"
    /\ pc[w] = "read"
    /\ global_counter' = [global_counter EXCEPT ![0] = plus_one(reg[w])]
    /\ pc' = [pc EXCEPT ![w] = "done"]
    /\ UNCHANGED <<kernel, reg, gridDim, blockDim, phase>>
    /\ UNCHANGED not_counter

\* global_counter.copy_to_host() waits for the kernel.
copy_to_host ==
    /\ phase = "running"
    /\ \A w \in Workers : pc[w] = "done"
    /\ phase' = "synced"
    /\ UNCHANGED <<kernel, global_counter, reg, pc, gridDim, blockDim>>
    /\ UNCHANGED not_counter

NextCounter ==
    \/ LaunchCounter
    \/ \E w \in Workers : thread_counter_safe(w)
    \/ \E w \in Workers : read_counter(w)
    \/ \E w \in Workers : write_counter(w)
    \/ copy_to_host

SpecCounter == InitCounter /\ [][NextCounter]_vars

\* C14: thread_counter_safe launched with gridDim blocks of blockDim threads
\* on a counter of 0 ends in every interleaving with the counter equal to
\* gridDim * blockDim; each thread's atomic add contributes exactly 1.
C14_SafeCounterCountsThreads ==
    (kernel = "thread_counter_safe" /\ phase # "host") =>
        /\ global_counter[0] = Cardinality({w \in Workers : pc[w] = "done"})
        /\ Done => global_counter[0] = gridDim * blockDim

\* The safe counter has counted four threads.
C14_Witness ==
    /\ Done
    /\ kernel = "thread_counter_safe"
    /\ gridDim = 2
    /\ blockDim = 2
    /\ global_counter[0] = 4

\* C15: thread_counter_race_condition reads, adds one and writes back in
\* separate steps, so updates can be lost: its final counter never exceeds
\* the number of threads launched and is never below 1.  An interleaving of
\* four threads that ends with the counter at 1 is C15_Witness.
C15_RaceCounterBounds ==
    (kernel = "thread_counter_race_condition" /\ Done) =>
        /\ global_counter[0] >= 1
        /\ global_counter[0] <= gridDim * blockDim

\* Four racing threads have ended with a counter of 1.
C15_Witness ==
    /\ Done
    /\ kernel = "thread_counter_race_condition"
    /\ gridDim * blockDim = 4
    /\ global_counter[0] = 1

(***************************************************************************)
(* cpu_histogram: the sequential histogram on the host.  xmin and xmax are *)
(* NumPy float32 scalars and the elements of x are float32, so every       *)
(* operation of the bin computation is a float32 operation.                *)
(***************************************************************************)
cpu_bin_width ==
    FDiv(ToFloat(xmax - xmin, Float32Bits), ToFloat(nbins, Float32Bits),
         Float32Bits)

cpu_bin_number(element) ==
    int32(FDiv(ToFloat(element - xmin, Float32Bits), cpu_bin_width,
               Float32Bits))

\* The arrays cpu_histogram can leave when it has reached element k with the
\* counters h.
RECURSIVE cpu_histogram(_, _)
cpu_histogram(h, k) ==
    IF k >= shape0(x) THEN {h}
    ELSE UNION {cpu_histogram(IF b >= 0 /\ b < shape0(h)
                              THEN [h EXCEPT ![b] = add_int32(@, 1)]
                              ELSE h,
                              k + 1) : b \in cpu_bin_number(x[k])}

XValues == {1, 33}       \* values an element of x can take
YValues == {2, 32}       \* values an element of y can take

\* What np.empty_like and cuda.device_array_like leave in out.
Uninitialized == {FZero(1), FNaN}

\* The integer a float holds.
FloatValue(f) ==
    IF f.e >= 0 THEN f.sign * f.m * Pow2(f.e)
    ELSE f.sign * (f.m \div Pow2(-f.e))

\* A sum that drops its second operand.
FAdd_first_only(a, b, P) == ToFloat(a, P)

\* a + b of two floats holding the integers a and b, in P mantissa bits.
FAdd(a, b, P) == ToFloat(a + b, P)

\* What add_kernel, first_kernel2 and their launches leave alone.
not_out ==
    <<xmin, xmax, histogram_out, bin_numbers, oob, global_counter, reg, pc,
      histogram_in, relaunches>>

InitOut ==
    /\ kernel \in {"add_kernel", "first_kernel2"}
    /\ \E n \in 0 .. MaxLen :
          /\ IF kernel = "add_kernel"
             THEN x \in Arrays(n, XValues) /\ y \in Arrays(n, YValues)
             ELSE x = [k \in 0 .. n - 1 |-> k] /\ y = zeros(0)
          /\ out \in {[k \in 0 .. n - 1 |-> g] : g \in Uninitialized}
          /\ writes = zeros(n)
    /\ gridDim \in 1 .. MaxBlocks
    /\ blockDim \in 1 .. MaxThreads
    /\ i = zeros(0)
    /\ phase = "host"
    /\ xmin = 0
    /\ xmax = 0
    /\ histogram_out = zeros(0)
    /\ bin_numbers = zeros(0)
    /\ oob = FALSE
    /\ global_counter = zeros(0)
    /\ reg = zeros(0)
    /\ pc = zeros(0)
    /\ histogram_in = zeros(0)
    /\ relaunches = 0

\* add_kernel[blocks_per_grid, threads_per_block](x, y, out), or
\* first_kernel2[blocks_per_grid, threads_per_block](out_device).
LaunchOut ==
    /\ phase = "host"
    /\ phase' = "running"
    /\ i' = [w \in Workers |-> grid(w)]
    /\ UNCHANGED <<kernel, x, y, out, writes, gridDim, blockDim>>
    /\ UNCHANGED not_out

\* One iteration of the loop of thread w of add_kernel.
add_kernel(w) ==
    /\ phase = "running"
    /\ kernel = "add_kernel"
    /\ i[w] \in range(grid(w), shape0(x), gridsize)
    /\ out' = [out EXCEPT ![i[w]] = FAdd(x[i[w]], y[i[w]], Float32Bits)]
    /\ writes' = [writes EXCEPT ![i[w]] = @ + 1]
    /\ i' = [i EXCEPT ![w] = @ + gridsize]
    /\ UNCHANGED <<kernel, x, y, gridDim, blockDim, phase>>
    /\ UNCHANGED not_out

\* One iteration of the loop of thread w of first_kernel2.
first_kernel2(w) ==
    /\ phase = "running"
    /\ kernel = "first_kernel2"
    /\ i[w] \in range(grid(w), shape0(x), gridsize)
    /\ out' = [out EXCEPT ![i[w]] = ToFloat(grid(w), Float32Bits)]
    /\ writes' = [writes EXCEPT ![i[w]] = @ + 1]
    /\ i' = [i EXCEPT ![w] = @ + gridsize]
    /\ UNCHANGED <<kernel, x, y, gridDim, blockDim, phase>>
    /\ UNCHANGED not_out

\* The copy of out back to the host waits for the kernel.
SynchronizeOut ==
    /\ phase = "running"
    /\ \A w \in Workers : i[w] >= shape0(x)
    /\ phase' = "synced"
    /\ UNCHANGED <<kernel, x, y, out, writes, i, gridDim, blockDim>>
    /\ UNCHANGED not_out

NextOut ==
    \/ LaunchOut
    \/ \E w \in Workers : add_kernel(w)
    \/ \E w \in Workers : first_kernel2(w)
    \/ SynchronizeOut

SpecOut == InitOut /\ [][NextOut]_vars

\* C17: for every grid and every input length, after add_kernel completes
\* every out[k] has been stored once and is the float32 sum of x[k] and
\* y[k], which is x[k] + y[k] itself when that fits the mantissa, whether
\* the threads are fewer than, as many as or more than the elements; a
\* thread whose start index is not below the length never leaves it.
C17_AddKernelSums ==
    (kernel = "add_kernel" /\ Done) =>
        /\ DOMAIN out = DOMAIN x
        /\ \A k \in DOMAIN x :
              /\ writes[k] = 1
              /\ out[k] = ToFloat(x[k] + y[k], Float32Bits)
              /\ x[k] + y[k] < Pow2(Float32Bits) =>
                    FloatValue(out[k]) = x[k] + y[k]
        /\ \A w \in Workers :
              w[2] + w[1] * blockDim >= shape0(x) =>
                  i[w] = w[2] + w[1] * blockDim

\* add_kernel has completed with more threads than elements.
C17_Witness ==
    /\ Done
    /\ kernel = "add_kernel"
    /\ shape0(x) = 3
    /\ gridDim = 2
    /\ blockDim = 2
    /\ FloatValue(out[0]) = 3
    /\ FloatValue(out[2]) = 35

\* C19: after first_kernel2 has run with G = gridDim * blockDim threads
\* over an array of length M every position k of 0 .. M-1 holds k mod G,
\* the id of the one thread that wrote it, and has been written exactly
\* once.
C19_FirstKernelThreadIds ==
    (kernel = "first_kernel2" /\ Done) =>
        /\ DOMAIN out = DOMAIN x
        /\ \A k \in DOMAIN x :
              /\ writes[k] = 1
              /\ FloatValue(out[k]) = k % (gridDim * blockDim)
              /\ out[k].kind = "fin"

\* Two threads have filled three positions: the ids start again.
C19_Witness ==
    /\ Done
    /\ kernel = "first_kernel2"
    /\ gridDim = 2
    /\ blockDim = 1
    /\ shape0(x) = 3
    /\ FloatValue(out[1]) = 1
    /\ FloatValue(out[2]) = 0

(***************************************************************************)
(* Samples far outside the range: the quotient by bin_width does not fit   *)
(* an int32.                                                               *)
(***************************************************************************)

InitFar ==
    /\ x \in UNION {Arrays(n, FarSampleValues) : n \in 0 .. MaxLen}
    /\ xmin = 1
    /\ xmax = 10
    /\ histogram_out \in {zeros(n) : n \in FarBinCounts}
    /\ gridDim \in 1 .. MaxBlocks
    /\ blockDim \in 1 .. MaxThreads
    /\ i = [w \in {} |-> 0]
    /\ bin_numbers = [k \in DOMAIN x |-> {}]
    /\ phase = "host"
    /\ oob = FALSE
    /\ kernel = "cuda_histogram"
    /\ y = zeros(0)
    /\ out = zeros(0)
    /\ writes = zeros(0)
    /\ global_counter = zeros(0)
    /\ reg = zeros(0)
    /\ pc = zeros(0)
    /\ histogram_in = histogram_out
    /\ relaunches = 0

\* cuda_histogram on the samples of Init and on the far samples.
SpecFar == (Init \/ InitFar) /\ [][Next]_vars

\* C18: cuda_histogram never writes outside the output array: for every
\* sample, however far below xmin or above xmax, and every interleaving no
\* atomic add targets an index off histogram_out; a counter counts only
\* samples whose bin number is its index, so a bin number outside
\* 0 .. nbins-1 adds to no counter, and no counter is negative.
C18_NoWriteOutsideArray ==
    /\ oob = FALSE
    /\ \A b \in DOMAIN histogram_out :
          /\ histogram_out[b] >= 0
          /\ histogram_out[b] <=
                Cardinality({k \in DOMAIN x : b \in bin_numbers[k]})

\* Samples far above and far below the range have been processed: their
\* bin numbers are the limits of int32 and no counter has moved.
C18_Witness ==
    /\ Done
    /\ shape0(x) = 2
    /\ x[0] = 2 ^ 28
    /\ x[1] = -(2 ^ 28)
    /\ INT32_MAX \in bin_numbers[0]
    /\ bin_numbers[1] = {INT32_MIN}
    /\ histogram_out = zeros(128)

(***************************************************************************)
(* Termination of a launch of cuda_histogram.  The device runs every       *)
(* thread of a launched grid to completion and the host's wait returns     *)
(* once the grid has completed: some enabled step is eventually taken.     *)
(***************************************************************************)
LiveSpec == Spec /\ WF_vars(Next)

\* The indices of 0 .. M-1 that fall to thread w.
IndexCount(w) ==
    Cardinality({k \in DOMAIN x :
                    k % (gridDim * blockDim) = w[2] + w[1] * blockDim})

\* While the kernel runs a thread with an index left can take its step
\* whatever the other threads have done, it never iterates more often than
\* it has indices, at most ceil(M / stride) times, and when the results
\* are readable it has iterated exactly that often.
WorkersIndependent ==
    phase # "host" =>
        \A w \in Workers :
            /\ (phase = "running" /\ i[w] < shape0(x)) => ENABLED Iterate(w)
            /\ Iterations(w) <= IndexCount(w)
            /\ IndexCount(w) <=
                  (shape0(x) + gridDim * blockDim - 1) \div (gridDim * blockDim)
            /\ Done => Iterations(w) = IndexCount(w)

\* C20: every launch terminates: under fair scheduling each worker finishes
\* after exactly the number of indices in its start/stride set, at most
\* ceil(M / stride) iterations, no worker's step depends on another
\* worker's progress, and the state with all workers done and the results
\* readable is eventually reached.
C20_LaunchTerminates == []WorkersIndependent /\ <>Done

\* Two threads have finished three samples, one after two iterations and
\* one after a single iteration.
C20_Witness ==
    /\ Done
    /\ shape0(x) = 3
    /\ gridDim = 1
    /\ blockDim = 2
    /\ Iterations(<<0, 0>>) = 2
    /\ Iterations(<<0, 1>>) = 1

\* C21: during accumulation the only shared state a worker changes is the
\* counter array: no step changes the samples, xmin, xmax or the number of
\* bins, and a step that changes the counters adds exactly 1 to exactly one
\* of them.
C21_OnlyCountersChange ==
    [][/\ x' = x
       /\ xmin' = xmin
       /\ xmax' = xmax
       /\ DOMAIN histogram_out' = DOMAIN histogram_out
       /\ histogram_out' # histogram_out =>
             /\ phase = "running"
             /\ \E b \in DOMAIN histogram_out :
                   histogram_out' = [histogram_out EXCEPT ![b] = @ + 1]]_vars

\* Two increments have reached the same counter while the kernel runs.
C21_Witness ==
    /\ phase = "running"
    /\ shape0(x) = 3
    /\ \E b \in DOMAIN histogram_out : histogram_out[b] = 2

\* The loop iterations completed so far by all threads.
IterationsCompleted == Cardinality({k \in DOMAIN x : bin_numbers[k] # {}})

\* No counter is negative and the counters add up to at most the
\* iterations completed, which are at most the samples.  The iterations
\* completed are the indices whose bin number has been computed, and also
\* the advances of the loop variables of all threads.
CountersBounded ==
    /\ \A b \in DOMAIN histogram_out : histogram_out[b] >= 0
    /\ Sum(histogram_out) <= IterationsCompleted
    /\ IterationsCompleted <= shape0(x)
    /\ phase # "host" =>
          IterationsCompleted =
              Sum([n \in 0 .. Cardinality(Workers) - 1 |->
                     LET w == <<n \div blockDim, n % blockDim>>
                     IN  (i[w] - n) \div (gridDim * blockDim)])

\* C23: in every state of a launch of cuda_histogram on a zero-initialised
\* output every counter is non-negative, the sum of the counters is at most
\* the number of loop iterations completed so far by all workers, which is
\* at most the number of samples, and no step decreases a counter.
C23_CountersMonotoneBounded ==
    /\ []CountersBounded
    /\ [][\A b \in DOMAIN histogram_out :
             histogram_out'[b] >= histogram_out[b]]_vars

\* Mid-launch: two of three iterations are completed and only one of them
\* has incremented a counter.
C23_Witness ==
    /\ phase = "running"
    /\ shape0(x) = 3
    /\ IterationsCompleted = 2
    /\ Sum(histogram_out) = 1
    /\ gridDim * blockDim = 2

(***************************************************************************)
(* cuda_histogram on an array the caller has not zeroed, and launched      *)
(* again on the same array.  The range and the number of bins are valid.   *)
(***************************************************************************)
\* Contents the caller can leave in an array of n counters.
InitialContents(n) ==
    {zeros(n),
     [b \in 0 .. n - 1 |-> 5],
     [b \in 0 .. n - 1 |-> IF b = 0 THEN INT32_MAX ELSE b]}

InitAgain ==
    /\ x \in UNION {Arrays(n, SampleValues) : n \in 0 .. MaxLen}
    /\ xmin = 1
    /\ xmax = 10
    /\ histogram_out \in UNION {InitialContents(n) : n \in BinCounts \ {0}}
    /\ gridDim \in 1 .. MaxBlocks
    /\ blockDim \in 1 .. MaxThreads
    /\ i = [w \in {} |-> 0]
    /\ bin_numbers = [k \in DOMAIN x |-> {}]
    /\ phase = "host"
    /\ oob = FALSE
    /\ kernel = "cuda_histogram"
    /\ y = zeros(0)
    /\ out = zeros(0)
    /\ writes = zeros(0)
    /\ global_counter = zeros(0)
    /\ reg = zeros(0)
    /\ pc = zeros(0)
    /\ histogram_in = histogram_out
    /\ relaunches = 0

\* A second launch that zeroes the array first.
LaunchAgain_zeroed ==
    /\ phase = "synced"
    /\ relaunches < MaxRelaunches
    /\ phase' = "running"
    /\ relaunches' = relaunches + 1
    /\ i' = [w \in Workers |-> grid(w)]
    /\ bin_numbers' = [k \in DOMAIN x |-> {}]
    /\ histogram_out' = zeros(nbins)
    /\ UNCHANGED <<x, xmin, xmax, gridDim, blockDim, oob, kernel, y, out,
                   writes, global_counter, reg, pc, histogram_in>>

\* cuda_histogram[gridDim, blockDim](x, xmin, xmax, histogram_out) once
\* more, on the array the previous launch has left.
LaunchAgain ==
    /\ phase = "synced"
    /\ relaunches < MaxRelaunches
    /\ phase' = "running"
    /\ relaunches' = relaunches + 1
    /\ i' = [w \in Workers |-> grid(w)]
    /\ bin_numbers' = [k \in DOMAIN x |-> {}]
    /\ UNCHANGED <<x, xmin, xmax, histogram_out, gridDim, blockDim, oob,
                   kernel, y, out, writes, global_counter, reg, pc,
                   histogram_in>>

NextAgain ==
    \/ Launch
    \/ \E w \in Workers : Iterate(w)
    \/ Synchronize
    \/ LaunchAgain

SpecAgain == InitAgain /\ [][NextAgain]_vars

\* The samples the kernel assigns to bin b, and those cpu_histogram does.
Assigned(b) == Cardinality({k \in DOMAIN x : b \in bin_number(x[k])})

CpuAssigned(b) == Cardinality({k \in DOMAIN x : b \in cpu_bin_number(x[k])})

\* C22: cuda_histogram, like cpu_histogram, increments the bins of the
\* caller's histogram_out and never resets them.  For a valid range and
\* initial contents histogram_in, after completion histogram_out[b] is the
\* int32 sum of histogram_in[b] and the number of samples assigned to bin
\* b, once for every launch made on the array; after one launch the result
\* is the per-bin counts exactly when the caller had zeroed the array.
C22_AccumulatesOnCallerArray ==
    Done =>
        /\ DOMAIN histogram_out = DOMAIN histogram_in
        /\ \A b \in DOMAIN histogram_out :
              histogram_out[b] =
                  add_int32(histogram_in[b], (relaunches + 1) * Assigned(b))
        /\ relaunches = 0 =>
              (histogram_out = [b \in DOMAIN histogram_out |-> Assigned(b)]
                  <=> histogram_in = zeros(nbins))
        /\ cpu_histogram(histogram_in, 0) =
              {[b \in DOMAIN histogram_in |->
                  add_int32(histogram_in[b], CpuAssigned(b))]}

\* A second launch has completed on an array that held 5 in every bin: two
\* samples of bin 0 have been counted twice.
C22_Witness ==
    /\ Done
    /\ relaunches = 1
    /\ nbins = 3
    /\ histogram_in[0] = 5
    /\ Assigned(0) = 2
    /\ histogram_out[0] = 9

=============================================================================
